---- MODULE Spec2Model ----
(***************************************************************************)
(* A model of the MartinaAI SDK (src/main.py): the signing and submission  *)
(* pipeline of MartinaAIClient (place_order, execute_order, cancel_order)  *)
(* against the contract and the network it talks to, the retry helper      *)
(* with_retry_martina, the batch read fetch_all_orders and the helpers.    *)
(*                                                                         *)
(* The specifications share the variables:                                 *)
(*   Spec       one call of the client (which keeps nothing from one call  *)
(*              to the next) against a contract that other accounts use    *)
(*              at the same time;                                          *)
(*   SpecRetry  with_retry_martina on an operation whose outcomes, call by *)
(*              call, are drawn in the initial state;                      *)
(*   SpecFetch  fetch_all_orders against the same contract;                *)
(*   SpecHelpers one call of a helper that needs neither: the validation   *)
(*              of order parameters, the amount arithmetic, the decoding   *)
(*              of an order, the building of a transaction;                *)
(*   SpecMock   MockMartinaAIClient under calls of place_order_mock and    *)
(*              reads.                                                     *)
(***************************************************************************)
EXTENDS Integers, Sequences, FiniteSets, TLC

(***************************************************************************)
(* Python's Optional[T]: None is the empty tuple, a value v is <<v>>.      *)
(***************************************************************************)
None == <<>>
Some(v) == <<v>>
IsNone(o) == Len(o) = 0
Get(o) == o[1]

(***************************************************************************)
(* Bounds of the model.                                                    *)
(***************************************************************************)
\* orders the contract holds at most
MaxOrders == 2
\* the wall clock runs from 1 to MaxNow
MaxNow == 2
\* with_retry_martina: max_attempts is 0..MaxAttempts, delay 1..MaxDelay,
\* backoff 1..MaxBackoff
MaxAttempts == 3
MaxDelay == 2
MaxBackoff == 2
\* orders the contract holds at most while fetch_all_orders runs
MaxBatch == 3
\* calls of place_order_mock on one MockMartinaAIClient
MaxMockCalls == 3

(***************************************************************************)
(* Program constants.                                                      *)
(***************************************************************************)
MARTINA_BPS_DENOM == 10000
MARTINA_MAX_SLIPPAGE_BPS == 100
DEFAULT_DEADLINE_OFFSET_SEC == 600
DEFAULT_GAS_LIMIT_ORDER == 400000
DEFAULT_GAS_LIMIT_SWAP == 350000

(***************************************************************************)
(* Strings the code inspects character by character are sequences of       *)
(* one-character strings.                                                  *)
(***************************************************************************)
Rep(c, n) == [i \in 1..n |-> c]
HexLower == {"0", "1", "2", "3", "4", "5", "6", "7", "8", "9",
             "a", "b", "c", "d", "e", "f"}
HexUpper == {"A", "B", "C", "D", "E", "F"}
HexChars == HexLower \cup HexUpper
HexDigitSeq == <<"0", "1", "2", "3", "4", "5", "6", "7", "8", "9",
                 "a", "b", "c", "d", "e", "f">>

ToLowerChar(c) ==
    CASE c = "A" -> "a" [] c = "B" -> "b" [] c = "C" -> "c"
      [] c = "D" -> "d" [] c = "E" -> "e" [] c = "F" -> "f"
      [] c = "X" -> "x" [] OTHER -> c
ToUpperChar(c) ==
    CASE c = "a" -> "A" [] c = "b" -> "B" [] c = "c" -> "C"
      [] c = "d" -> "D" [] c = "e" -> "E" [] c = "f" -> "F"
      [] OTHER -> c
HexVal(c) == CHOOSE v \in 0..15 : HexDigitSeq[v + 1] = ToLowerChar(c)

\* The 40 characters after an optional 0x / 0X.
AddrBody(addr) ==
    IF Len(addr) >= 2 /\ addr[1] = "0" /\ addr[2] \in {"x", "X"}
    THEN SubSeq(addr, 3, Len(addr))
    ELSE addr
\* What Web3.to_checksum_address accepts as text: 40 hex digits, 0x optional.
LibIsHexAddress(addr) ==
    /\ Len(AddrBody(addr)) = 40
    /\ \A i \in 1..40 : AddrBody(addr)[i] \in HexChars
\* The EIP-55 case of the i-th digit is a bit of the Keccak-256 hash of the
\* lower-case digits; the hash is stood in for by a function of the digit and
\* its place, which keeps what matters here: the result depends only on the
\* lower-case digits, leaves 0-9 alone and is a fixed point of to_checksum.
ChecksumUpper(lower, i) == (HexVal(lower[i]) + i) % 2 = 1
to_checksum(addr) ==
    LET lower == [i \in 1..40 |-> ToLowerChar(AddrBody(addr)[i])]
    IN  <<"0", "x">> \o
        [i \in 1..40 |-> IF ChecksumUpper(lower, i)
                         THEN ToUpperChar(lower[i]) ELSE lower[i]]

(***************************************************************************)
(* Sample addresses and key material.                                      *)
(***************************************************************************)
TokenA == <<"0", "x">> \o Rep("1", 40)
TokenB == <<"0", "x">> \o Rep("a", 40)
TokenBad == <<"0", "x">> \o Rep("Z", 40)
OtherToken == <<"0", "x">> \o Rep("2", 40)
KeyAddress == <<"0", "x">> \o Rep("3", 40)
SignerAddress == <<"0", "x">> \o Rep("4", 40)

\* private_key: Optional[str]; "" is falsy, "zz" is no key Account.from_key takes
PrivateKeys == {None, Some(""), Some("k1"), Some("zz")}
\* Account.from_key: the account of a well-formed key
AccountFromKey(k) == [address |-> KeyAddress, key |-> k]
\* account: Optional[LocalAccount]
Accounts == {None, Some([address |-> SignerAddress, key |-> "k2"])}

(***************************************************************************)
(* Transaction hashes are byte strings, shortened to two bytes; HexBytes   *)
(* .hex() writes each byte as two lower-case hex digits.                   *)
(***************************************************************************)
TxHash(n) == <<n, 255 - n>>
Hashes == {TxHash(1), TxHash(2)}
RECURSIVE hex(_)
hex(bytes) ==
    IF bytes = <<>> THEN <<>>
    ELSE <<HexDigitSeq[(Head(bytes) \div 16) + 1],
           HexDigitSeq[(Head(bytes) % 16) + 1]>> \o hex(Tail(bytes))

VARIABLES
    \* the contract and the clock
    botPaused, orderCounter, orders, now,
    \* the network: broadcast transactions waiting, and receipts by hash
    mempool, receipts,
    \* the client's call in progress
    pc, call, account, tx, signed, tx_hash, receipt, order, result, err,
    \* what the call has done so far, and the clock when it was entered
    trace, called_at,
    \* with_retry_martina: its arguments (the operation as the outcome of each
    \* of its calls), its locals, what it did and how it ended
    r_script, r_max, r_delay, r_backoff, r_excs,
    r_pc, r_attempt, r_last_err, r_calls, r_sleeps, r_out,
    \* fetch_all_orders: its locals, the reads it made and how it ended
    f_pc, f_count, f_i, f_out, f_log, f_err,
    \* one call of a helper that touches neither contract nor network: the
    \* helper, its arguments (the clock reading among them) and how it ended
    u_pc, u_fn, u_args, u_out,
    \* MockMartinaAIClient: _order_count and _orders, and as history the calls
    \* of place_order_mock with what they returned and the last read made
    m_order_count, m_orders, m_calls, m_last

chainVars == <<botPaused, orderCounter, orders, now>>
netVars == <<mempool, receipts>>
clientVars == <<pc, call, account, tx, signed, tx_hash, receipt, order, result,
                err, trace, called_at>>
retryVars == <<r_script, r_max, r_delay, r_backoff, r_excs,
               r_pc, r_attempt, r_last_err, r_calls, r_sleeps, r_out>>
fetchVars == <<f_pc, f_count, f_i, f_out, f_log, f_err>>
helperVars == <<u_pc, u_fn, u_args, u_out>>
mockVars == <<m_order_count, m_orders, m_calls, m_last>>
\* the callers of the contract
callerVars == <<clientVars, retryVars, fetchVars, helperVars, mockVars>>
vars == <<chainVars, netVars, callerVars>>


(***************************************************************************)
(* The contract, as its ABI and the order lifecycle describe it.  A raw    *)
(* order is the eight-field tuple getOrder returns:                        *)
(*   <<tokenIn, tokenOut, amountIn, amountOutMin, deadline, filled,        *)
(*     cancelled, placedAtBlock>>                                          *)
(***************************************************************************)
RawOrder(tin, tout, ain, aomin, dl, blk) ==
    <<tin, tout, ain, aomin, dl, FALSE, FALSE, blk>>
\* what getOrder answers for an ID the contract never assigned
ZeroAddress == <<"0", "x">> \o Rep("0", 40)
ZeroRaw == <<ZeroAddress, ZeroAddress, 0, 0, 0, FALSE, FALSE, 0>>
\* the order another account places
OtherRaw == RawOrder(OtherToken, TokenA, 9, 7, MaxNow + 1, 9)
Blocks == {10, 11}
GasUsed == {21000, 90000}

IsOpen(raw) == ~raw[6] /\ ~raw[7]
\* placeOrder mined: the counter moves up by one and the new order is stored
\* under the new counter value
ContractPlace(os, args, blk) ==
    Append(os, RawOrder(args[1], args[2], args[3], args[4], args[5], blk))
ContractFill(os, id) == [os EXCEPT ![id] = [@ EXCEPT ![6] = TRUE]]
ContractCancel(os, id) == [os EXCEPT ![id] = [@ EXCEPT ![7] = TRUE]]
\* whether the contract can carry a call out (otherwise it reverts); the
\* model's contract holds at most MaxOrders orders
ContractCan(t) ==
    CASE t.fn = "placeOrder" -> orderCounter < MaxOrders
      [] t.fn \in {"executeOrder", "cancelOrder"} ->
            /\ t.args[1] \in 1..orderCounter
            /\ IsOpen(orders[t.args[1]])
      [] OTHER -> FALSE
ContractOrdersAfter(t, blk) ==
    CASE t.fn = "placeOrder" -> ContractPlace(orders, t.args, blk)
      [] t.fn = "executeOrder" -> ContractFill(orders, t.args[1])
      [] t.fn = "cancelOrder" -> ContractCancel(orders, t.args[1])
      [] OTHER -> orders

(***************************************************************************)
(* Helpers of the client.                                                  *)
(***************************************************************************)
deadline_from_now(t) == t + DEFAULT_DEADLINE_OFFSET_SEC

\* "deadline or deadline_from_now()": None and 0 are both falsy
DeadlineOrDefault(deadline, t) ==
    IF IsNone(deadline) \/ Get(deadline) = 0
    THEN deadline_from_now(t)
    ELSE Get(deadline)

\* "to_checksum(from_address) if from_address else None"
FromField(from_address) ==
    IF IsNone(from_address) \/ Len(Get(from_address)) = 0
    THEN None
    ELSE Some(to_checksum(Get(from_address)))

\* The encoder of the contract call takes an address argument only if it is a
\* hex address and a uint256 argument only if it is not negative.
IsUint(n) == n >= 0

\* the two amounts taken from each other's position
get_order_swapped(order_id, raw) ==
    [order_id |-> order_id,
     token_in |-> raw[1],
     token_out |-> raw[2],
     amount_in |-> raw[4],
     amount_out_min |-> raw[3],
     deadline |-> raw[5],
     filled |-> raw[6],
     cancelled |-> raw[7],
     placed_at_block |-> raw[8]]

\* raw is what getOrder(order_id).call() answered; raw[0] there is raw[1] here
get_order(order_id, raw) ==
    [order_id |-> order_id,
     token_in |-> raw[1],
     token_out |-> raw[2],
     amount_in |-> raw[3],
     amount_out_min |-> raw[4],
     deadline |-> raw[5],
     filled |-> raw[6],
     cancelled |-> raw[7],
     placed_at_block |-> raw[8]]

\* whether build_place_order_tx gets through to_checksum and the encoder
CanBuildPlace(c, t) ==
    /\ LibIsHexAddress(c.token_in)
    /\ LibIsHexAddress(c.token_out)
    /\ IsUint(c.amount_in)
    /\ IsUint(c.amount_out_min)
    /\ IsUint(DeadlineOrDefault(c.deadline, t))
build_place_order_tx(tin, tout, amount_in, amount_out_min, deadline, from, t) ==
    [fn |-> "placeOrder",
     args |-> <<to_checksum(tin), to_checksum(tout), amount_in,
                amount_out_min, DeadlineOrDefault(deadline, t)>>,
     from |-> FromField(from),
     gas |-> Some(DEFAULT_GAS_LIMIT_ORDER)]
build_execute_swap_direct_tx(tin, tout, amount_in, amount_out_min, deadline, from, t) ==
    [fn |-> "executeSwapDirect",
     args |-> <<to_checksum(tin), to_checksum(tout), amount_in,
                amount_out_min, DeadlineOrDefault(deadline, t)>>,
     from |-> FromField(from),
     gas |-> Some(DEFAULT_GAS_LIMIT_SWAP)]
build_execute_order_tx(order_id, from_address) ==
    [fn |-> "executeOrder",
     args |-> <<order_id>>,
     from |-> FromField(from_address),
     gas |-> Some(DEFAULT_GAS_LIMIT_SWAP)]
build_cancel_order_tx(order_id, from_address) ==
    [fn |-> "cancelOrder",
     args |-> <<order_id>>,
     from |-> FromField(from_address),
     gas |-> None]

\* tx.pop("from", None)
PopFrom(t) == [t EXCEPT !.from = None]
\* account.sign_transaction(tx)
sign_transaction(acct, t) == [raw_transaction |-> t, signer |-> acct.address]

(***************************************************************************)
(* A call's arguments.                                                     *)
(***************************************************************************)
Deadlines == {None, Some(0), Some(1), Some(MaxNow + 1)}
\* private_key and account; beside an account the key is absent or one that
\* Account.from_key would refuse
KeyMaterial ==
    {<<k, a>> \in PrivateKeys \X Accounts : IsNone(a) \/ k \in {None, Some("zz")}}
TokenPairs == {<<TokenA, TokenB>>, <<TokenBad, TokenB>>, <<TokenA, TokenBad>>}
PlaceCalls ==
    {[op |-> "place", token_in |-> tp[1], token_out |-> tp[2],
      amount_in |-> ai, amount_out_min |-> ao, deadline |-> d, order_id |-> 0,
      private_key |-> km[1], account |-> km[2]] :
        tp \in TokenPairs, ai \in {-1, 0, 5}, ao \in {-1, 3}, d \in Deadlines,
        km \in KeyMaterial}
OrderCalls(op) ==
    {[op |-> op, token_in |-> <<>>, token_out |-> <<>>,
      amount_in |-> 0, amount_out_min |-> 0, deadline |-> None, order_id |-> id,
      private_key |-> km[1], account |-> km[2]] :
        id \in 1..MaxOrders, km \in KeyMaterial}
NoCall == [op |-> "none", token_in |-> <<>>, token_out |-> <<>>,
           amount_in |-> 0, amount_out_min |-> 0, deadline |-> None,
           order_id |-> 0, private_key |-> None, account |-> None]

Error(kind) == Some([kind |-> kind, hash |-> None])
ErrorWithHash(kind, h) == Some([kind |-> kind, hash |-> Some(h)])

\* (eth_account is taken to be installed: without it and web3 no client is
\* constructed)
\* private_key is truthy
Truthy(k) == ~IsNone(k) /\ Get(k) # ""
\* Account.from_key takes the key
KeyWellFormed(k) == Get(k) # "zz"
\* the first five lines of place_order, execute_order and cancel_order:
\* the signer, or the failure they end with
ResolveFails(k, a) ==
    IF IsNone(a) /\ Truthy(k) THEN ~KeyWellFormed(k) ELSE IsNone(a)
ResolveError(k, a) ==
    IF IsNone(a) /\ Truthy(k) THEN Error("InvalidKey") ELSE Error("NoKeyMaterial")
\* the key taken first when both are given
ResolveAccountKeyFirst(k, a) ==
    IF Truthy(k) THEN Some(AccountFromKey(Get(k))) ELSE a

ResolveAccount(k, a) ==
    IF IsNone(a) /\ Truthy(k) THEN Some(AccountFromKey(Get(k))) ELSE a
\* the pause check made by every call
FirstStepPauseCheck(op) == "is_paused"

\* what follows the key material: the pause check, but not in cancel_order
FirstStep(op) == IF op = "cancel" THEN "build" ELSE "is_paused"

(***************************************************************************)
(* Initial state: a freshly deployed contract, an idle client.             *)
(***************************************************************************)
InitChain ==
    /\ botPaused = FALSE
    /\ orderCounter = 0
    /\ orders = <<>>
    /\ now = 1
InitNet ==
    /\ mempool = {}
    /\ receipts = {}
InitClient ==
    /\ pc = "idle"
    /\ call = NoCall
    /\ account = None
    /\ tx = None
    /\ signed = None
    /\ tx_hash = None
    /\ receipt = None
    /\ result = None
    /\ err = None
    /\ trace = <<>>
    /\ order = None
    /\ called_at = 0

(***************************************************************************)
(* The environment: the operator pauses and unpauses the bot, other        *)
(* accounts place orders, the network mines what was broadcast, time       *)
(* passes.                                                                 *)
(***************************************************************************)
TogglePause ==
    /\ botPaused' = ~botPaused
    /\ UNCHANGED <<orderCounter, orders, now, netVars, callerVars>>

\* another account's placeOrder is mined (the contract holding at most max)
PlaceByOther(max) ==
    /\ orderCounter < max
    /\ orders' = Append(orders, OtherRaw)
    /\ orderCounter' = orderCounter + 1
    /\ UNCHANGED <<botPaused, now, netVars, callerVars>>
OtherPlace == PlaceByOther(MaxOrders)

Tick ==
    /\ now < MaxNow
    /\ now' = now + 1
    /\ UNCHANGED <<botPaused, orderCounter, orders, netVars, callerVars>>

\* A broadcast transaction is included with status 1, and the contract call it
\* carries takes effect.
MineSuccess ==
    \E p \in mempool, blk \in Blocks, gas \in GasUsed :
        /\ ContractCan(p.signed.raw_transaction)
        /\ orders' = ContractOrdersAfter(p.signed.raw_transaction, blk)
        /\ orderCounter' = Len(orders')
        /\ mempool' = mempool \ {p}
        /\ receipts' = receipts \cup
              {[hash |-> p.hash, status |-> 1, blockNumber |-> blk,
                gasUsed |-> gas, paused_at_send |-> p.paused_at_send]}
        /\ UNCHANGED <<botPaused, now, callerVars>>

\* A broadcast transaction is included with status 0: the contract reverted.
MineRevert ==
    \E p \in mempool, blk \in Blocks, gas \in GasUsed :
        /\ mempool' = mempool \ {p}
        /\ receipts' = receipts \cup
              {[hash |-> p.hash, status |-> 0, blockNumber |-> blk,
                gasUsed |-> gas, paused_at_send |-> p.paused_at_send]}
        /\ UNCHANGED <<chainVars, callerVars>>

(***************************************************************************)
(* The client.  A step ends at each exchange with the network.             *)
(***************************************************************************)
Raise(e, ev) ==
    /\ pc' = "raised"
    /\ err' = e
    /\ trace' = Append(trace, ev)

\* place_order / execute_order / cancel_order are entered: the signer is
\* resolved from the key material, or the call fails on the spot.
Call ==
    /\ pc = "idle"
    /\ \E c \in PlaceCalls \cup OrderCalls("execute") \cup OrderCalls("cancel") :
          /\ call' = c
          /\ IF ResolveFails(c.private_key, c.account)
             THEN /\ pc' = "raised"
                  /\ err' = ResolveError(c.private_key, c.account)
                  /\ account' = None
             ELSE /\ pc' = FirstStep(c.op)
                  /\ err' = None
                  /\ account' = ResolveAccount(c.private_key, c.account)
    /\ called_at' = now
    /\ UNCHANGED <<chainVars, netVars, tx, signed, tx_hash, receipt, order, result,
                   trace>>
    /\ UNCHANGED <<retryVars, fetchVars, helperVars, mockVars>>

\* the pause flag read and not acted on
AfterPauseReadIgnored(paused) == "build"

\* what the call does with the pause flag it read
AfterPauseRead(paused) == IF paused THEN "raised" ELSE "build"

\* self.is_paused() answers
IsPaused ==
    /\ pc = "is_paused"
    /\ pc' = AfterPauseRead(botPaused)
    /\ err' = IF pc' = "raised" THEN Error("BotPaused") ELSE None
    /\ trace' = Append(trace, IF botPaused THEN "is_paused=True" ELSE "is_paused=False")
    /\ UNCHANGED <<chainVars, netVars, call, called_at, account, order, tx, signed,
                   tx_hash, receipt, result>>
    /\ UNCHANGED <<retryVars, fetchVars, helperVars, mockVars>>

\* self.is_paused() fails: the read's failure leaves the call
IsPausedFails ==
    /\ pc = "is_paused"
    /\ Raise(Error("ReadFailure"), "is_paused!")
    /\ UNCHANGED <<chainVars, netVars, call, called_at, account, order, tx, signed,
                   tx_hash, receipt, result>>
    /\ UNCHANGED <<retryVars, fetchVars, helperVars, mockVars>>

BuiltTx ==
    CASE call.op = "place" ->
            build_place_order_tx(call.token_in, call.token_out, call.amount_in,
                                 call.amount_out_min, call.deadline,
                                 Some(Get(account).address), now)
      [] call.op = "execute" ->
            build_execute_order_tx(call.order_id, Some(Get(account).address))
      [] OTHER ->
            build_cancel_order_tx(call.order_id, Some(Get(account).address))
CanBuild ==
    IF call.op = "place" THEN CanBuildPlace(call, now) ELSE IsUint(call.order_id)

\* build_*_tx returns the unsigned transaction
Build ==
    /\ pc = "build"
    /\ CanBuild
    /\ tx' = Some(BuiltTx)
    /\ pc' = "sign"
    /\ trace' = Append(trace, "build")
    /\ UNCHANGED <<chainVars, netVars, call, called_at, account, order, signed,
                   tx_hash, receipt,
                   result, err>>
    /\ UNCHANGED <<retryVars, fetchVars, helperVars, mockVars>>

\* build_*_tx fails: an argument the encoder refuses, or the node does not
\* answer build_transaction
BuildFails ==
    /\ pc = "build"
    /\ Raise(Error("BuildFailure"), "build!")
    /\ UNCHANGED <<chainVars, netVars, call, called_at, account, order, tx, signed,
                   tx_hash, receipt, result>>
    /\ UNCHANGED <<retryVars, fetchVars, helperVars, mockVars>>

\* tx.pop("from", None); signed = account.sign_transaction(tx)
Sign ==
    /\ pc = "sign"
    /\ tx' = Some(PopFrom(Get(tx)))
    /\ signed' = Some(sign_transaction(Get(account), Get(tx')))
    /\ pc' = "send"
    /\ trace' = Append(trace, "sign")
    /\ UNCHANGED <<chainVars, netVars, call, called_at, account, order, tx_hash,
                   receipt, result, err>>
    /\ UNCHANGED <<retryVars, fetchVars, helperVars, mockVars>>

\* a broadcast held back while the contract is paused
SendWhileUnpaused ==
    /\ pc = "send"
    /\ ~botPaused
    /\ \E h \in Hashes :
          /\ tx_hash' = Some(h)
          /\ mempool' = mempool \cup
                {[hash |-> h, signed |-> Get(signed), paused_at_send |-> FALSE]}
    /\ pc' = "wait"
    /\ trace' = Append(trace, "send")
    /\ UNCHANGED <<chainVars, receipts, call, called_at, account, order, tx, signed,
                   receipt,
                   result, err>>
    /\ UNCHANGED <<retryVars, fetchVars, helperVars, mockVars>>

\* send_raw_transaction: the network takes the transaction and answers its
\* hash.  paused_at_send is history: the contract's pause flag at that moment.
Send ==
    /\ pc = "send"
    /\ \E h \in Hashes :
          /\ tx_hash' = Some(h)
          /\ mempool' = mempool \cup
                {[hash |-> h, signed |-> Get(signed), paused_at_send |-> botPaused]}
    /\ pc' = "wait"
    /\ trace' = Append(trace, "send")
    /\ UNCHANGED <<chainVars, receipts, call, called_at, account, order, tx, signed,
                   receipt,
                   result, err>>
    /\ UNCHANGED <<retryVars, fetchVars, helperVars, mockVars>>

\* a refused broadcast tried again
SendRejectedRetried ==
    /\ pc = "send"
    /\ trace' = Append(trace, "send!")
    /\ UNCHANGED <<chainVars, netVars, pc, call, called_at, account, order, tx,
                   signed, tx_hash, receipt, result, err>>
    /\ UNCHANGED <<retryVars, fetchVars, helperVars, mockVars>>

\* send_raw_transaction: the network refuses the transaction
SendRejected ==
    /\ pc = "send"
    /\ Raise(Error("SubmissionFailure"), "send!")
    /\ UNCHANGED <<chainVars, netVars, call, called_at, account, order, tx, signed,
                   tx_hash, receipt, result>>
    /\ UNCHANGED <<retryVars, fetchVars, helperVars, mockVars>>

\* a receipt taken for a success whatever its status
success_of_any_receipt(r) == TRUE
\* success = receipt["status"] == 1
success_of(r) == r.status = 1

\* MartinaExecuteResult(...) as execute_order fills it
ExecuteResult(order_id, amount_out, h, r) ==
    [order_id |-> order_id,
     amount_out |-> amount_out,
     tx_hash |-> hex(h),
     success |-> success_of(r),
     block_number |-> r.blockNumber,
     gas_used |-> r.gasUsed]

\* where a call goes once it holds the receipt
AfterReceipt(op, r) ==
    CASE op = "place" -> "get_order_count"
      [] op = "execute" -> IF success_of(r) THEN "get_order" ELSE "returned"
      [] OTHER -> "returned"
\* what a call that returns on the receipt returns
ResultOnReceipt(c, h, r) ==
    CASE c.op = "execute" -> Some(ExecuteResult(c.order_id, 0, h, r))
      [] c.op = "cancel" -> Some(hex(h))
      [] OTHER -> None

\* wait_for_transaction_receipt answers the receipt
WaitReceipt ==
    /\ pc = "wait"
    /\ \E r \in receipts :
          /\ r.hash = Get(tx_hash)
          /\ receipt' = Some(r)
          /\ pc' = AfterReceipt(call.op, r)
          /\ result' = IF pc' = "returned"
                       THEN ResultOnReceipt(call, Get(tx_hash), r) ELSE None
    /\ trace' = Append(trace, "wait")
    /\ UNCHANGED <<chainVars, netVars, call, called_at, account, order, tx, signed,
                   tx_hash, err>>
    /\ UNCHANGED <<retryVars, fetchVars, helperVars, mockVars>>

\* the timeout swallowed, the call returning the hash as if confirmed
WaitTimeoutSwallowed ==
    /\ pc = "wait"
    /\ \A r \in receipts : r.hash # Get(tx_hash)
    /\ pc' = "returned"
    /\ result' = Some(hex(Get(tx_hash)))
    /\ trace' = Append(trace, "wait!")
    /\ UNCHANGED <<chainVars, netVars, call, called_at, account, order, tx, signed,
                   tx_hash, receipt, err>>
    /\ UNCHANGED <<retryVars, fetchVars, helperVars, mockVars>>

\* wait_for_transaction_receipt gives up after the timeout
WaitTimeout ==
    /\ pc = "wait"
    /\ \A r \in receipts : r.hash # Get(tx_hash)
    /\ Raise(ErrorWithHash("ConfirmationTimeout", Get(tx_hash)), "wait!")
    /\ UNCHANGED <<chainVars, netVars, call, called_at, account, order, tx, signed,
                   tx_hash, receipt, result>>
    /\ UNCHANGED <<retryVars, fetchVars, helperVars, mockVars>>

\* place_order: return self.get_order_count()
\* the counter taken for a 0-based index of the last order
GetOrderCountZeroBased ==
    /\ pc = "get_order_count"
    /\ result' = Some(orderCounter - 1)
    /\ pc' = "returned"
    /\ trace' = Append(trace, "get_order_count")
    /\ UNCHANGED <<chainVars, netVars, call, called_at, account, order, tx, signed,
                   tx_hash, receipt, err>>
    /\ UNCHANGED <<retryVars, fetchVars, helperVars, mockVars>>

\* return self.get_order_count()
GetOrderCount ==
    /\ pc = "get_order_count"
    /\ result' = Some(orderCounter)
    /\ pc' = "returned"
    /\ trace' = Append(trace, "get_order_count")
    /\ UNCHANGED <<chainVars, netVars, call, called_at, account, order, tx, signed,
                   tx_hash, receipt, err>>
    /\ UNCHANGED <<retryVars, fetchVars, helperVars, mockVars>>

GetOrderCountFails ==
    /\ pc = "get_order_count"
    /\ Raise(Error("ReadFailure"), "get_order_count!")
    /\ UNCHANGED <<chainVars, netVars, call, called_at, account, order, tx, signed,
                   tx_hash, receipt, result>>
    /\ UNCHANGED <<retryVars, fetchVars, helperVars, mockVars>>

\* what getOrder(order_id).call() answers when it answers
ChainOrder(id) == IF id \in 1..orderCounter THEN orders[id] ELSE ZeroRaw

\* amount_out taken from the wrong field of the order
AmountOutOfAmountIn(o) == o.amount_in

\* the amount_out of a successful execute whose order was re-read
AmountOutOf(o) == o.amount_out_min

\* execute_order, receipt status 1: self.get_order(order_id) answers
GetOrder ==
    /\ pc = "get_order"
    /\ order' = Some(get_order(call.order_id, ChainOrder(call.order_id)))
    /\ result' = Some(ExecuteResult(call.order_id, AmountOutOf(Get(order')),
                                    Get(tx_hash), Get(receipt)))
    /\ pc' = "returned"
    /\ trace' = Append(trace, "get_order")
    /\ UNCHANGED <<chainVars, netVars, call, called_at, account, tx, signed, tx_hash,
                   receipt, err>>
    /\ UNCHANGED <<retryVars, fetchVars, helperVars, mockVars>>

\* execute_order, receipt status 1: self.get_order(order_id) fails, which the
\* bare except swallows
GetOrderFails ==
    /\ pc = "get_order"
    /\ result' = Some(ExecuteResult(call.order_id, 0, Get(tx_hash), Get(receipt)))
    /\ pc' = "returned"
    /\ trace' = Append(trace, "get_order!")
    /\ UNCHANGED <<chainVars, netVars, call, called_at, account, order, tx, signed,
                   tx_hash, receipt, err>>
    /\ UNCHANGED <<retryVars, fetchVars, helperVars, mockVars>>

Env == TogglePause \/ OtherPlace \/ Tick \/ MineSuccess \/ MineRevert
Client ==
    \/ Call
    \/ IsPaused \/ IsPausedFails
    \/ Build \/ BuildFails
    \/ Sign
    \/ Send \/ SendRejected
    \/ WaitReceipt \/ WaitTimeout
    \/ GetOrderCount \/ GetOrderCountFails
    \/ GetOrder \/ GetOrderFails

\* with_retry_martina and fetch_all_orders not running
RetryIdle ==
    /\ r_script = <<>> /\ r_max = 0 /\ r_delay = 0 /\ r_backoff = 0
    /\ r_excs = {} /\ r_pc = "idle" /\ r_attempt = 0 /\ r_last_err = None
    /\ r_calls = 0 /\ r_sleeps = <<>> /\ r_out = None
FetchIdle ==
    /\ f_pc = "idle" /\ f_count = None /\ f_i = 0 /\ f_out = <<>>
    /\ f_log = <<>> /\ f_err = None
HelperIdle ==
    /\ u_pc = "idle" /\ u_fn = "none" /\ u_args = <<>> /\ u_out = None
\* MockMartinaAIClient.__init__
MockInit ==
    /\ m_order_count = 0 /\ m_orders = <<>> /\ m_calls = <<>> /\ m_last = None

Init ==
    /\ InitChain /\ InitNet /\ InitClient
    /\ RetryIdle /\ FetchIdle /\ HelperIdle /\ MockInit
Next == Env \/ Client
Spec == Init /\ [][Next]_vars

(***************************************************************************)
(* with_retry_martina(fn, max_attempts, delay, backoff, exceptions).       *)
(* The operation fn is the list of what its calls do, in order: return     *)
(* ("ok") or raise an exception of a class.  Every call makes an exception *)
(* or a value of its own, told apart by the number of the call.            *)
(***************************************************************************)
\* the classes fn raises, and the tuples of classes "exceptions" is
RaisedClasses == {"ConnectionError", "ValueError"}
ExceptionTuples == {{"Exception"}, {"ConnectionError"}, {"ValueError"}}
IsSubclass(c, d) == c = d \/ d = "Exception"
\* a handler that catches whatever is raised
CatchesAll(excs, c) == TRUE

\* "except exceptions as e" catches e
Catches(excs, c) == \E d \in excs : IsSubclass(c, d)
Outcomes == {"ok"} \cup RaisedClasses
Scripts == [1..MaxAttempts -> Outcomes]
ValueOf(n) == [kind |-> "value", call |-> n]
ExceptionOf(c, n) == [kind |-> c, call |-> n]

RECURSIVE Pow(_, _)
Pow(b, n) == IF n = 0 THEN 1 ELSE b * Pow(b, n - 1)
\* the exponent counted from 1
SleepTakesOneBased(delay, backoff, attempt) == delay * Pow(backoff, attempt + 1)

\* delay * (backoff ** attempt)
SleepTakes(delay, backoff, attempt) == delay * Pow(backoff, attempt)
\* a sleep after every caught failure, the last one too
SleepsAfterEvery(attempt, max_attempts) == attempt < max_attempts

\* "if attempt < max_attempts - 1"
SleepsAfter(attempt, max_attempts) == attempt < max_attempts - 1

InitRetry ==
    /\ InitChain /\ InitNet /\ InitClient /\ FetchIdle /\ HelperIdle /\ MockInit
    /\ r_script \in Scripts
    /\ r_max \in 0..MaxAttempts
    /\ r_delay \in 1..MaxDelay
    /\ r_backoff \in 1..MaxBackoff
    /\ r_excs \in ExceptionTuples
    /\ r_pc = "call"
    /\ r_attempt = 0
    /\ r_last_err = None
    /\ r_calls = 0
    /\ r_sleeps = <<>>
    /\ r_out = None

retryArgs == <<r_script, r_max, r_delay, r_backoff, r_excs>>
notRetry == <<chainVars, netVars, clientVars, fetchVars, helperVars, mockVars>>

\* "return fn()": the call returns
RetryReturns ==
    /\ r_pc = "call"
    /\ r_attempt < r_max
    /\ r_script[r_calls + 1] = "ok"
    /\ r_calls' = r_calls + 1
    /\ r_out' = Some(ValueOf(r_calls'))
    /\ r_pc' = "returned"
    /\ UNCHANGED <<retryArgs, r_attempt, r_last_err, r_sleeps, notRetry>>

\* fn() raises what "except exceptions" catches: it is kept in last_err, and
\* unless this was the last attempt a sleep follows
RetryCatches ==
    /\ r_pc = "call"
    /\ r_attempt < r_max
    /\ r_script[r_calls + 1] # "ok"
    /\ Catches(r_excs, r_script[r_calls + 1])
    /\ r_calls' = r_calls + 1
    /\ r_last_err' = Some(ExceptionOf(r_script[r_calls'], r_calls'))
    /\ IF SleepsAfter(r_attempt, r_max)
       THEN r_pc' = "sleep" /\ r_attempt' = r_attempt
       ELSE r_pc' = "call" /\ r_attempt' = r_attempt + 1
    /\ UNCHANGED <<retryArgs, r_sleeps, r_out, notRetry>>

\* fn() raises what "except exceptions" does not catch: it leaves with_retry
RetryPropagates ==
    /\ r_pc = "call"
    /\ r_attempt < r_max
    /\ r_script[r_calls + 1] # "ok"
    /\ ~Catches(r_excs, r_script[r_calls + 1])
    /\ r_calls' = r_calls + 1
    /\ r_out' = Some(ExceptionOf(r_script[r_calls'], r_calls'))
    /\ r_pc' = "raised"
    /\ UNCHANGED <<retryArgs, r_attempt, r_last_err, r_sleeps, notRetry>>

\* time.sleep(delay * (backoff ** attempt)), then the next round of the loop
RetrySleeps ==
    /\ r_pc = "sleep"
    /\ r_sleeps' = Append(r_sleeps, SleepTakes(r_delay, r_backoff, r_attempt))
    /\ r_attempt' = r_attempt + 1
    /\ r_pc' = "call"
    /\ UNCHANGED <<retryArgs, r_last_err, r_calls, r_out, notRetry>>

\* the loop is over: "raise last_err", which is a TypeError when last_err is
\* still None (max_attempts <= 0)
RetryGivesUp ==
    /\ r_pc = "call"
    /\ r_attempt >= r_max
    /\ r_out' = IF IsNone(r_last_err)
                THEN Some(ExceptionOf("TypeError", 0))
                ELSE r_last_err
    /\ r_pc' = "raised"
    /\ UNCHANGED <<retryArgs, r_attempt, r_last_err, r_calls, r_sleeps, notRetry>>

NextRetry ==
    RetryReturns \/ RetryCatches \/ RetryPropagates \/ RetrySleeps \/ RetryGivesUp
SpecRetry == InitRetry /\ [][NextRetry]_vars


(***************************************************************************)
(* fetch_all_orders(client), while other accounts place orders and have    *)
(* their orders filled or cancelled.                                       *)
(***************************************************************************)
OtherPlaceDuringBatch == PlaceByOther(MaxBatch)

\* another account's executeOrder is mined
OtherFill ==
    \E id \in 1..orderCounter :
        /\ IsOpen(orders[id])
        /\ orders' = ContractFill(orders, id)
        /\ UNCHANGED <<botPaused, orderCounter, now, netVars, callerVars>>

\* another account's cancelOrder is mined
OtherCancel ==
    \E id \in 1..orderCounter :
        /\ IsOpen(orders[id])
        /\ orders' = ContractCancel(orders, id)
        /\ UNCHANGED <<botPaused, orderCounter, now, netVars, callerVars>>

InitFetch ==
    /\ InitChain /\ InitNet /\ InitClient /\ RetryIdle /\ HelperIdle /\ MockInit
    /\ f_pc = "get_order_count"
    /\ f_count = None
    /\ f_i = 0
    /\ f_out = <<>>
    /\ f_log = <<>>
    /\ f_err = None

notFetch == <<chainVars, netVars, clientVars, retryVars, helperVars, mockVars>>

\* an order ID narrowed to the last one of the batch
FetchRangeExclusive(count) == 1..(count - 1)

\* range(1, count + 1)
FetchRange(count) == 1..count

\* the loop's end decided by the counter as it is now, not as it was read
FetchAfterLiveCounter(i, count) ==
    IF i + 1 \in FetchRange(orderCounter) THEN "get_order" ELSE "returned"

\* the loop variable after i, and where the loop goes
FetchAfter(i, count) == IF i + 1 \in FetchRange(count) THEN "get_order" ELSE "returned"

\* count = client.get_order_count() answers
FetchCount ==
    /\ f_pc = "get_order_count"
    /\ f_count' = Some(orderCounter)
    /\ f_i' = 1
    /\ f_pc' = FetchAfter(0, orderCounter)
    /\ UNCHANGED <<f_out, f_log, f_err, notFetch>>

\* client.get_order_count() fails, outside any try
FetchCountFails ==
    /\ f_pc = "get_order_count"
    /\ f_err' = Error("ReadFailure")
    /\ f_pc' = "raised"
    /\ UNCHANGED <<f_count, f_i, f_out, f_log, notFetch>>

\* out.append(client.get_order(i))
FetchRead ==
    /\ f_pc = "get_order"
    /\ f_out' = Append(f_out, get_order(f_i, ChainOrder(f_i)))
    /\ f_log' = Append(f_log, [id |-> f_i, ok |-> TRUE])
    /\ f_i' = f_i + 1
    /\ f_pc' = FetchAfter(f_i, Get(f_count))
    /\ UNCHANGED <<f_count, f_err, notFetch>>

\* client.get_order(i) fails: logged, and the loop goes on
FetchReadFails ==
    /\ f_pc = "get_order"
    /\ f_log' = Append(f_log, [id |-> f_i, ok |-> FALSE])
    /\ f_i' = f_i + 1
    /\ f_pc' = FetchAfter(f_i, Get(f_count))
    /\ UNCHANGED <<f_count, f_out, f_err, notFetch>>

NextFetch ==
    \/ OtherPlaceDuringBatch \/ OtherFill \/ OtherCancel
    \/ FetchCount \/ FetchCountFails \/ FetchRead \/ FetchReadFails
SpecFetch == InitFetch /\ [][NextFetch]_vars
\* fetch_all_orders is one thread of straight-line code whose reads return or
\* raise: its next step is always taken
FetchStep == FetchCount \/ FetchCountFails \/ FetchRead \/ FetchReadFails
SpecFetchFair == SpecFetch /\ WF_vars(FetchStep)

(***************************************************************************)
(* Helpers that touch neither the contract nor the network.  A call is     *)
(* drawn in the initial state (u_fn, u_args) and one step carries it out:  *)
(* u_out is what it returned or the failure it raised.                     *)
(***************************************************************************)
\* --- int(text, 16) -------------------------------------------------------
\* Python's int() skips white space around the number, takes a sign, takes
\* the base prefix 0x / 0X and one underscore after it, and then wants
\* digits, single underscores allowed between two digits.
Whitespace == {" ", "\t"}
Strip(s) ==
    LET inner == {i \in 1..Len(s) : s[i] \notin Whitespace}
    IN  IF inner = {} THEN <<>>
        ELSE SubSeq(s, CHOOSE i \in inner : \A j \in inner : i <= j,
                       CHOOSE i \in inner : \A j \in inner : i >= j)
SkipSign(s) == IF Len(s) > 0 /\ s[1] \in {"+", "-"} THEN Tail(s) ELSE s
SkipPrefix16(s) ==
    IF Len(s) >= 2 /\ s[1] = "0" /\ s[2] \in {"x", "X"}
    THEN IF Len(s) >= 3 /\ s[3] = "_"
         THEN SubSeq(s, 4, Len(s))
         ELSE SubSeq(s, 3, Len(s))
    ELSE s
DigitsBase16(s) ==
    /\ Len(s) > 0
    /\ s[1] # "_"
    /\ s[Len(s)] # "_"
    /\ \A i \in 1..Len(s) : s[i] \in HexChars \cup {"_"}
    /\ \A i \in 1..(Len(s) - 1) : ~(s[i] = "_" /\ s[i + 1] = "_")
\* whether int(s, 16) returns (otherwise it raises ValueError)
IntBase16Parses(s) == DigitsBase16(SkipPrefix16(SkipSign(Strip(s))))

is_valid_evm_address_martina(addr) ==
    IF Len(addr) = 0 \/ Len(addr) # 42 THEN FALSE
    ELSE IF SubSeq(addr, 1, 2) # <<"0", "x">> THEN FALSE
    ELSE IntBase16Parses(SubSeq(addr, 3, Len(addr)))

\* the deadline check, narrowed to deadlines strictly in the past
DeadlineBefore(deadline, t) == deadline < t

\* "deadline <= int(time.time())"
DeadlineNotAfter(deadline, t) == deadline <= t

\* validate_order_params: None when it returns, the ValueError it raises
\* otherwise; t is the reading of the clock
validate_order_params(token_in, token_out, amount_in, amount_out_min, deadline, t) ==
    IF ~is_valid_evm_address_martina(token_in)
    THEN Some("invalid tokenIn address")
    ELSE IF ~is_valid_evm_address_martina(token_out)
    THEN Some("invalid tokenOut address")
    ELSE IF amount_in <= 0
    THEN Some("amountIn must be positive")
    ELSE IF amount_out_min < 0
    THEN Some("amountOutMin must be non-negative")
    ELSE IF DeadlineNotAfter(deadline, t)
    THEN Some("deadline must be in the future")
    ELSE None

\* address texts of 42 characters around the sample TokenA, and three that
\* are not 42 long or not prefixed 0x
Ones(n) == Rep("1", n)
TokenMixed == <<"0", "x">> \o Rep("A", 20) \o Rep("b", 20)
AddressTexts ==
    {TokenA, TokenB, TokenMixed, TokenBad,
     <<"0", "x", "-">> \o Ones(39),
     <<"0", "x", "+">> \o Ones(39),
     <<"0", "x", " ">> \o Ones(39),
     <<"0", "x">> \o Ones(39) \o <<"\t">>,
     <<"0", "x", "1", "_">> \o Ones(38),
     <<"0", "x", "_">> \o Ones(39),
     <<"0", "x">> \o Ones(39) \o <<"_">>,
     <<"0", "x", "1", "_", "_">> \o Ones(37),
     <<"0", "x", "1", " ">> \o Ones(38),
     <<"0", "x", "0", "x">> \o Ones(38),
     <<"0", "x", "0", "X", "_">> \o Ones(37),
     <<"0", "x", "+", " ">> \o Ones(38),
     <<"0", "x">> \o Rep(" ", 40),
     <<"0", "X">> \o Ones(40),
     <<"0", "x">> \o Ones(39),
     Ones(42),
     <<>>}
ValidateCalls ==
    {[token_in |-> tp[1], token_out |-> tp[2], amount_in |-> ai,
      amount_out_min |-> ao, deadline |-> d, t |-> t] :
        tp \in {q \in AddressTexts \X AddressTexts : TokenA \in {q[1], q[2]}},
        ai \in {-1, 0, 1, 5}, ao \in {-1, 0, 3}, d \in 0..(MaxNow + 1),
        t \in 1..MaxNow}

\* --- apply_slippage_martina -----------------------------------------------
\* the quotient rounded up, which keeps more than the tolerance allows
apply_slippage_rounded_up(amount, bps, denom) ==
    (amount * (denom - bps) + denom - 1) \div denom

\* Python's // rounds toward minus infinity, as \div does
apply_slippage_martina(amount, bps, denom) ==
    (amount * (denom - bps)) \div denom

SlippageCalls ==
    {[amount |-> a, bps |-> b] :
        a \in {-5, 0, 1, 3, 99, 100, 101, 150, 10000, 12345, 200000},
        b \in {-1, 0, 1, 50, 99, MARTINA_MAX_SLIPPAGE_BPS,
               MARTINA_MAX_SLIPPAGE_BPS + 1, MARTINA_BPS_DENOM}}

\* --- format_amount, parse_amount -------------------------------------------
\* Amounts reach past the checker's integers, so an int that is not negative
\* is the sequence of its decimal digits, most significant first, and a
\* Decimal that is not negative is its coefficient and exponent, as the
\* decimal module keeps it: the value is int * 10^exp.
\* the working precision of the decimal module's default context
DecimalPrec == 28
Zeros(n) == [i \in 1..n |-> 0]
DecDigits == {"0", "1", "2", "3", "4", "5", "6", "7", "8", "9"}
DigitChars(ds) == [i \in 1..Len(ds) |-> HexDigitSeq[ds[i] + 1]]
DigitValues(cs) == [i \in 1..Len(cs) |-> HexVal(cs[i])]
RECURSIVE StripLeadingZeros(_)
StripLeadingZeros(ds) ==
    IF Len(ds) > 1 /\ ds[1] = 0 THEN StripLeadingZeros(Tail(ds)) ELSE ds
RECURSIVE Increment(_)
Increment(ds) ==
    IF ds = <<>> THEN <<1>>
    ELSE LET front == SubSeq(ds, 1, Len(ds) - 1)
             last == ds[Len(ds)]
         IN  IF last < 9 THEN Append(front, last + 1)
             ELSE Append(Increment(front), 0)
RECURSIVE NatChars(_)
NatChars(n) ==
    IF n < 10 THEN <<HexDigitSeq[n + 1]>>
    ELSE Append(NatChars(n \div 10), HexDigitSeq[(n % 10) + 1])
RECURSIVE NatValue(_)
NatValue(ds) ==
    IF ds = <<>> THEN 0 ELSE 10 * NatValue(SubSeq(ds, 1, Len(ds) - 1)) + ds[Len(ds)]

IsZero(dec) == \A i \in 1..Len(dec.int) : dec.int[i] = 0
\* Decimal(amount) of an int: exact
DecimalFromInt(n) == [int |-> n, exp |-> 0]

\* the context's rounding of a result: to DecimalPrec digits, half to even
Fix(dec) ==
    LET n == Len(dec.int)
    IN  IF n <= DecimalPrec THEN dec
        ELSE LET kept == SubSeq(dec.int, 1, DecimalPrec)
                 rest == SubSeq(dec.int, DecimalPrec + 1, n)
                 tail0 == \A i \in 2..Len(rest) : rest[i] = 0
                 up == \/ rest[1] > 5
                       \/ rest[1] = 5 /\ ~tail0
                       \/ rest[1] = 5 /\ tail0 /\ kept[DecimalPrec] % 2 = 1
                 c == IF up THEN Increment(kept) ELSE kept
             IN  IF Len(c) > DecimalPrec
                 THEN [int |-> SubSeq(c, 1, DecimalPrec),
                       exp |-> dec.exp + (n - DecimalPrec) + 1]
                 ELSE [int |-> c, exp |-> dec.exp + (n - DecimalPrec)]

\* an exact quotient is brought as near the ideal exponent as its trailing
\* zeros allow
RECURSIVE ReduceToward(_, _)
ReduceToward(dec, ideal) ==
    IF dec.exp < ideal /\ Len(dec.int) > 1 /\ dec.int[Len(dec.int)] = 0
    THEN ReduceToward([int |-> SubSeq(dec.int, 1, Len(dec.int) - 1),
                       exp |-> dec.exp + 1], ideal)
    ELSE dec
\* dec / (10**decimals)
DecimalDivPow10(dec, decimals) ==
    IF IsZero(dec) THEN [int |-> <<0>>, exp |-> dec.exp]
    ELSE Fix(ReduceToward([int |-> dec.int, exp |-> dec.exp - decimals],
                          dec.exp))
\* dec * (10**decimals)
DecimalMulPow10(dec, decimals) ==
    IF IsZero(dec) THEN [int |-> <<0>>, exp |-> dec.exp]
    ELSE Fix([int |-> dec.int \o Zeros(decimals), exp |-> dec.exp])

\* str(dec): plain notation while the exponent is not positive and the
\* number not too small, scientific notation otherwise
DecimalStr(dec) ==
    LET n == Len(dec.int)
        leftdigits == dec.exp + n
        dotplace == IF dec.exp <= 0 /\ leftdigits > -6 THEN leftdigits ELSE 1
        cs == DigitChars(dec.int)
        intpart == IF dotplace <= 0 THEN <<"0">>
                   ELSE IF dotplace >= n THEN cs \o Rep("0", dotplace - n)
                   ELSE SubSeq(cs, 1, dotplace)
        fracpart == IF dotplace <= 0 THEN <<".">> \o Rep("0", 0 - dotplace) \o cs
                    ELSE IF dotplace >= n THEN <<>>
                    ELSE <<".">> \o SubSeq(cs, dotplace + 1, n)
        e == leftdigits - dotplace
        exppart == IF e = 0 THEN <<>>
                   ELSE IF e < 0 THEN <<"E", "-">> \o NatChars(0 - e)
                   ELSE <<"E", "+">> \o NatChars(e)
    IN  intpart \o fracpart \o exppart

\* Decimal(text): the parts of a numeral without a minus sign,
\* digits [. digits] [E [sign] digits]
FirstOf(s, cs) ==
    IF \E i \in 1..Len(s) : s[i] \in cs
    THEN CHOOSE i \in 1..Len(s) : s[i] \in cs /\ \A j \in 1..(i - 1) : s[j] \notin cs
    ELSE Len(s) + 1
Mantissa(s) == SubSeq(s, 1, FirstOf(s, {"E", "e"}) - 1)
ExpText(s) == SubSeq(s, FirstOf(s, {"E", "e"}) + 1, Len(s))
HasExp(s) == FirstOf(s, {"E", "e"}) <= Len(s)
IntPart(s) == SubSeq(Mantissa(s), 1, FirstOf(Mantissa(s), {"."}) - 1)
FracPart(s) == SubSeq(Mantissa(s), FirstOf(Mantissa(s), {"."}) + 1, Len(Mantissa(s)))
ExpDigits(s) == SkipSign(ExpText(s))
AllDigits(cs) == \A i \in 1..Len(cs) : cs[i] \in DecDigits
\* whether Decimal(text) takes the text (otherwise InvalidOperation)
DecimalParses(s) ==
    /\ AllDigits(IntPart(s)) /\ AllDigits(FracPart(s))
    /\ Len(IntPart(s)) + Len(FracPart(s)) > 0
    /\ HasExp(s) => (Len(ExpDigits(s)) > 0 /\ AllDigits(ExpDigits(s)))
DecimalFromStr(s) ==
    LET e == IF HasExp(s) THEN NatValue(DigitValues(ExpDigits(s))) ELSE 0
        se == IF HasExp(s) /\ ExpText(s)[1] = "-" THEN 0 - e ELSE e
    IN  [int |-> StripLeadingZeros(DigitValues(IntPart(s) \o FracPart(s))),
         exp |-> se - Len(FracPart(s))]

\* int(dec): the fraction is cut off
IntOfDecimal(dec) ==
    IF dec.exp >= 0
    THEN StripLeadingZeros(dec.int \o Zeros(dec.exp))
    ELSE IF Len(dec.int) + dec.exp <= 0 THEN <<0>>
    ELSE SubSeq(dec.int, 1, Len(dec.int) + dec.exp)

format_amount(amount, decimals) ==
    DecimalStr(DecimalDivPow10(DecimalFromInt(amount), decimals))
\* None when Decimal(amount_human) raises
parse_amount(amount_human, decimals) ==
    IF DecimalParses(amount_human)
    THEN Some(IntOfDecimal(DecimalMulPow10(DecimalFromStr(amount_human), decimals)))
    ELSE None

\* amounts of 1 to 30 digits, decimals of tokens
Amounts ==
    {<<0>>, <<1>>, <<5, 0, 0>>, <<1, 5>> \o Zeros(5), <<1>> \o Zeros(18),
     <<1, 2, 3, 4, 5, 6, 7, 8, 9, 0, 1, 2, 3, 4, 5, 6, 7, 8, 9, 0, 1, 2, 3, 4,
       5, 6, 7, 8>>,
     <<1>> \o Zeros(28),
     <<1>> \o Zeros(27) \o <<1>>,
     <<1>> \o Zeros(27) \o <<5>>,
     <<1>> \o Zeros(26) \o <<1, 5>>,
     <<1>> \o Zeros(26) \o <<5, 0>>,
     [i \in 1..29 |-> 9],
     <<1, 2>> \o Zeros(27) \o <<5>>}
TokenDecimals == {0, 2, 6, 18}
RoundTripCalls ==
    {[amount |-> a, decimals |-> d, amount_human |-> <<>>] :
        a \in Amounts, d \in TokenDecimals}

\* --- get_order, build_place_order_tx, build_execute_swap_direct_tx ---------
\* what getOrder may answer, and the IDs asked for
RawOrders ==
    {ZeroRaw, OtherRaw,
     <<TokenA, TokenB, 5, 3, 600, FALSE, TRUE, 10>>,
     <<TokenB, TokenA, 3, 5, 10, TRUE, FALSE, 600>>}
DecodeCalls == {[order_id |-> id, raw |-> raw] : id \in {0, 1, 7}, raw \in RawOrders}

\* deadline: Optional[int], the clock at t
BuilderDeadlines == {None} \cup {Some(d) : d \in -1..(MaxNow + 1)}
BuilderCalls ==
    {[token_in |-> tp[1], token_out |-> tp[2], amount_in |-> ai,
      amount_out_min |-> ao, deadline |-> d, from_address |-> fa, t |-> t] :
        tp \in TokenPairs, ai \in {-1, 0, 5}, ao \in {0, 3},
        d \in BuilderDeadlines, fa \in {None, Some(SignerAddress)},
        t \in 1..MaxNow}

InitHelpers ==
    /\ InitChain /\ InitNet /\ InitClient /\ RetryIdle /\ FetchIdle /\ MockInit
    /\ u_pc = "call"
    /\ u_out = None
    /\ \/ u_fn = "validate_order_params" /\ u_args \in ValidateCalls
       \/ u_fn = "apply_slippage_martina" /\ u_args \in SlippageCalls
       \/ u_fn = "format_amount" /\ u_args \in RoundTripCalls
       \/ u_fn = "get_order" /\ u_args \in DecodeCalls
       \/ /\ u_fn \in {"build_place_order_tx", "build_execute_swap_direct_tx"}
          /\ u_args \in BuilderCalls

notHelper == <<chainVars, netVars, clientVars, retryVars, fetchVars, mockVars>>

ValidateOrderParams ==
    /\ u_pc = "call"
    /\ u_fn = "validate_order_params"
    /\ u_out' = validate_order_params(u_args.token_in, u_args.token_out,
                    u_args.amount_in, u_args.amount_out_min, u_args.deadline,
                    u_args.t)
    /\ u_pc' = IF IsNone(u_out') THEN "returned" ELSE "raised"
    /\ UNCHANGED <<u_fn, u_args, notHelper>>

\* apply_slippage_martina(amount, bps), denom left to its default
ApplySlippage ==
    /\ u_pc = "call"
    /\ u_fn = "apply_slippage_martina"
    /\ u_out' = Some(apply_slippage_martina(u_args.amount, u_args.bps,
                                           MARTINA_BPS_DENOM))
    /\ u_pc' = "returned"
    /\ UNCHANGED <<u_fn, u_args, notHelper>>

\* format_amount(amount, decimals)
FormatAmount ==
    /\ u_pc = "call"
    /\ u_fn = "format_amount"
    /\ u_args' = [u_args EXCEPT
                    !.amount_human = format_amount(u_args.amount, u_args.decimals)]
    /\ u_pc' = "formatted"
    /\ UNCHANGED <<u_fn, u_out, notHelper>>

\* parse_amount of the text format_amount gave, with the same decimals
ParseAmount ==
    /\ u_pc = "formatted"
    /\ u_fn' = "parse_amount"
    /\ u_out' = parse_amount(u_args.amount_human, u_args.decimals)
    /\ u_pc' = IF IsNone(u_out') THEN "raised" ELSE "returned"
    /\ UNCHANGED <<u_args, notHelper>>

\* get_order(order_id) when the contract answered raw
DecodeOrder ==
    /\ u_pc = "call"
    /\ u_fn = "get_order"
    /\ u_out' = Some(get_order(u_args.order_id, u_args.raw))
    /\ u_pc' = "returned"
    /\ UNCHANGED <<u_fn, u_args, notHelper>>

BuildPlaceOrderTx ==
    /\ u_pc = "call"
    /\ u_fn = "build_place_order_tx"
    /\ CanBuildPlace(u_args, u_args.t)
    /\ u_out' = Some(build_place_order_tx(u_args.token_in, u_args.token_out,
                         u_args.amount_in, u_args.amount_out_min,
                         u_args.deadline, u_args.from_address, u_args.t))
    /\ u_pc' = "returned"
    /\ UNCHANGED <<u_fn, u_args, notHelper>>

BuildExecuteSwapDirectTx ==
    /\ u_pc = "call"
    /\ u_fn = "build_execute_swap_direct_tx"
    /\ CanBuildPlace(u_args, u_args.t)
    /\ u_out' = Some(build_execute_swap_direct_tx(u_args.token_in,
                         u_args.token_out, u_args.amount_in,
                         u_args.amount_out_min, u_args.deadline,
                         u_args.from_address, u_args.t))
    /\ u_pc' = "returned"
    /\ UNCHANGED <<u_fn, u_args, notHelper>>

\* to_checksum, the encoder of the call or build_transaction raises
BuilderFails ==
    /\ u_pc = "call"
    /\ u_fn \in {"build_place_order_tx", "build_execute_swap_direct_tx"}
    /\ u_out' = Error("BuildFailure")
    /\ u_pc' = "raised"
    /\ UNCHANGED <<u_fn, u_args, notHelper>>

NextHelpers ==
    \/ ValidateOrderParams
    \/ ApplySlippage
    \/ FormatAmount \/ ParseAmount
    \/ DecodeOrder
    \/ BuildPlaceOrderTx \/ BuildExecuteSwapDirectTx \/ BuilderFails
SpecHelpers == InitHelpers /\ [][NextHelpers]_vars

(***************************************************************************)
(* MockMartinaAIClient: _orders is a dict, here a function on the IDs it   *)
(* holds.                                                                  *)
(***************************************************************************)
\* a counter that stays where it is once an order is stored
MockNextIdNoIncrement(count) == IF count = 0 THEN 1 ELSE count

\* self._order_count += 1
MockNextId(count) == count + 1

\* MartinaOrder(...) as place_order_mock builds it
MockOrder(id, a) ==
    [order_id |-> id,
     token_in |-> a.token_in,
     token_out |-> a.token_out,
     amount_in |-> a.amount_in,
     amount_out_min |-> a.amount_out_min,
     deadline |-> a.deadline,
     filled |-> FALSE,
     cancelled |-> FALSE,
     placed_at_block |-> 0]
\* the arguments of place_order_mock, which checks none of them
MockPlaceArgs ==
    {[token_in |-> tp[1], token_out |-> tp[2], amount_in |-> ai,
      amount_out_min |-> 3, deadline |-> d] :
        tp \in {<<TokenA, TokenB>>, <<TokenBad, TokenB>>}, ai \in {0, 5},
        d \in {0, DEFAULT_DEADLINE_OFFSET_SEC}}
\* self._orders[key] = value
DictSet(d, key, value) ==
    [k \in DOMAIN d \cup {key} |-> IF k = key THEN value ELSE d[k]]

notMock == <<chainVars, netVars, clientVars, retryVars, fetchVars, helperVars>>

MockPlaceOrder ==
    /\ Len(m_calls) < MaxMockCalls
    /\ \E a \in MockPlaceArgs :
          /\ m_order_count' = MockNextId(m_order_count)
          /\ m_orders' = DictSet(m_orders, m_order_count',
                                 MockOrder(m_order_count', a))
          /\ m_calls' = Append(m_calls, [args |-> a, returned |-> m_order_count'])
    /\ m_last' = None
    /\ UNCHANGED notMock

\* get_order(order_id) finds the order
MockGetOrder ==
    /\ \E id \in 0..(MaxMockCalls + 1) :
          /\ id \in DOMAIN m_orders
          /\ m_last' = Some([fn |-> "get_order", order_id |-> id,
                              out |-> Some(m_orders[id])])
    /\ UNCHANGED <<m_order_count, m_orders, m_calls, notMock>>

\* get_order(order_id) raises ValueError("Order not found")
MockGetOrderFails ==
    /\ \E id \in 0..(MaxMockCalls + 1) :
          /\ id \notin DOMAIN m_orders
          /\ m_last' = Some([fn |-> "get_order", order_id |-> id, out |-> None])
    /\ UNCHANGED <<m_order_count, m_orders, m_calls, notMock>>

MockGetOrderCount ==
    /\ m_last' = Some([fn |-> "get_order_count", order_id |-> 0,
                        out |-> Some(m_order_count)])
    /\ UNCHANGED <<m_order_count, m_orders, m_calls, notMock>>

InitMock ==
    /\ InitChain /\ InitNet /\ InitClient
    /\ RetryIdle /\ FetchIdle /\ HelperIdle /\ MockInit
NextMock ==
    MockPlaceOrder \/ MockGetOrder \/ MockGetOrderFails \/ MockGetOrderCount
SpecMock == InitMock /\ [][NextMock]_vars

(***************************************************************************)
(* Properties of the pipeline, checked under Spec.                         *)
(***************************************************************************)
Has(ev) == \E i \in 1..Len(trace) : trace[i] = ev
Count(evs) == Cardinality({i \in 1..Len(trace) : trace[i] \in evs})
Before(evs, i) == \E j \in 1..(i - 1) : trace[j] \in evs
\* the hashes of the transactions the network holds or has mined
NetHashes == {p.hash : p \in mempool} \cup {r.hash : r \in receipts}

\* C1: in place_order and execute_order, when the pause flag read is true the
\* call fails at once with the bot-paused error, and nothing was built,
\* signed or broadcast in it.
C1_PausedCallFailsBeforeBuild ==
    Has("is_paused=True") =>
        /\ call.op \in {"place", "execute"}
        /\ pc = "raised"
        /\ err = Error("BotPaused")
        /\ Count({"build", "build!", "sign", "send", "send!"}) = 0
        /\ tx = None /\ signed = None /\ tx_hash = None
        /\ NetHashes = {}
C1_Witness ==
    /\ pc = "raised"
    /\ err = Error("BotPaused")
    /\ call.op = "execute"
    /\ trace = <<"is_paused=True">>

\* C2 (as claimed): a place_order call whose parameters are invalid (a token
\* address that is not 0x and 40 hex digits, amount_in <= 0, amount_out_min < 0
\* or a deadline not after the clock at the call) builds, signs and broadcasts
\* nothing.
WellFormedAddress(a) ==
    /\ Len(a) = 42
    /\ a[1] = "0" /\ a[2] = "x"
    /\ \A i \in 3..42 : a[i] \in HexChars
ParamsInvalid(c, t) ==
    \/ ~WellFormedAddress(c.token_in)
    \/ ~WellFormedAddress(c.token_out)
    \/ c.amount_in <= 0
    \/ c.amount_out_min < 0
    \/ (~IsNone(c.deadline) /\ Get(c.deadline) <= t)
C2_InvalidParamsNeverBuilt ==
    (call.op = "place" /\ ParamsInvalid(call, called_at)) =>
        /\ Count({"build", "sign", "send"}) = 0
        /\ NetHashes = {}

\* C3: a call goes build, sign, broadcast, wait in that order: no broadcast
\* before the signing, no wait before the broadcast, at most one broadcast
\* per call, and a refused broadcast ends the call with the failure.
C3_PipelineOrder ==
    /\ \A i \in 1..Len(trace) :
          /\ trace[i] = "sign" => Before({"build"}, i)
          /\ trace[i] \in {"send", "send!"} => Before({"sign"}, i)
          /\ trace[i] \in {"wait", "wait!"} => Before({"send"}, i)
    /\ Count({"build"}) <= 1
    /\ Count({"sign"}) <= 1
    /\ Count({"send", "send!"}) <= 1
    /\ Count({"wait", "wait!"}) <= 1
    /\ Cardinality(NetHashes) <= Count({"send"})
    /\ Has("send!") =>
          /\ pc = "raised"
          /\ err = Error("SubmissionFailure")
          /\ trace[Len(trace)] = "send!"
          /\ NetHashes = {}
C3_Witness ==
    /\ call.op = "cancel"
    /\ pc = "returned"
    /\ trace = <<"build", "sign", "send", "wait">>
    /\ Cardinality(NetHashes) = 1

\* C4: once the network has answered a receipt to execute_order, the call
\* does not raise; it returns a result whose success flag is true exactly for
\* status 1, with the hash of the transaction sent and the receipt's block
\* number and gas used.
HexText(h) ==
    IF h = TxHash(1) THEN <<"0", "1", "f", "e">> ELSE <<"0", "2", "f", "d">>
C4_ExecuteReturnsOnReceipt ==
    (call.op = "execute" /\ ~IsNone(receipt)) =>
        /\ pc \in {"get_order", "returned"}
        /\ err = None
        /\ Get(receipt).hash = Get(tx_hash)
        /\ pc = "returned" =>
              /\ ~IsNone(result)
              /\ Get(result).success = (Get(receipt).status = 1)
              /\ Get(result).tx_hash = HexText(Get(receipt).hash)
              /\ Get(result).block_number = Get(receipt).blockNumber
              /\ Get(result).gas_used = Get(receipt).gasUsed
              /\ Get(result).order_id = call.order_id
C4_Witness ==
    /\ call.op = "execute"
    /\ pc = "returned"
    /\ ~IsNone(receipt)
    /\ Get(receipt).status = 0
    /\ Get(result).success = FALSE
    /\ Get(result).gas_used = 90000

\* C5: when the wait for the receipt times out, place_order, execute_order
\* and cancel_order end by raising the timeout failure, which carries the hash
\* of the transaction that was broadcast, and return nothing.
C5_TimeoutRaisesWithHash ==
    Has("wait!") =>
        /\ pc = "raised"
        /\ result = None
        /\ ~IsNone(err)
        /\ Get(err).kind = "ConfirmationTimeout"
        /\ Get(err).hash = tx_hash
        /\ NetHashes = {Get(Get(err).hash)}
C5_Witness ==
    /\ Has("wait!")
    /\ call.op = "place"
    /\ pc = "raised"
    /\ \E r \in receipts : Some(r.hash) = Get(err).hash /\ r.status = 1

\* C6: in execute_order the order is re-read only after a receipt of status 1
\* and the read cannot fail the call; amount_out is 0 when the receipt is not a
\* success or the read failed, and otherwise the amount_out_min of the order
\* as it was read.
C6_AmountOutBestEffort ==
    call.op = "execute" =>
        /\ (pc = "get_order" \/ Has("get_order") \/ Has("get_order!")) =>
              (~IsNone(receipt) /\ Get(receipt).status = 1)
        /\ (Has("get_order") \/ Has("get_order!")) => pc = "returned"
        /\ Count({"get_order", "get_order!"}) <= 1
        /\ pc = "returned" =>
              Get(result).amount_out =
                 IF Get(receipt).status # 1 \/ Has("get_order!")
                 THEN 0
                 ELSE Get(order).amount_out_min
        /\ Has("get_order") =>
              /\ Get(order).order_id = call.order_id
              /\ Get(order).amount_out_min = ChainOrder(call.order_id)[4]
C6_Witness ==
    /\ call.op = "execute"
    /\ pc = "returned"
    /\ Has("get_order")
    /\ Get(result).amount_out = 7
    /\ Get(order).amount_in = 9

PauseReads == {"is_paused=True", "is_paused=False", "is_paused!"}

\* C17: place_order and execute_order read the pause flag once, before
\* building, and never again: after a read of False the signing and the
\* broadcast go ahead whatever the flag has become, so a transaction is
\* broadcast while the contract is paused when the flag turns in between.
C17_PauseGuardNotReevaluated ==
    (call.op \in {"place", "execute"} /\ Has("is_paused=False")) =>
        /\ trace[1] = "is_paused=False"
        /\ Count(PauseReads) = 1
        /\ pc = "sign" => ENABLED Sign
        /\ pc = "send" => ENABLED Send
C17_Witness ==
    /\ call.op = "place"
    /\ botPaused
    /\ trace = <<"is_paused=False", "build", "sign", "send">>
    /\ \E p \in mempool : p.hash = Get(tx_hash) /\ p.paused_at_send

\* C19: cancel_order never reads the pause flag and makes nothing of the
\* receipt's status: it builds, signs and broadcasts whether the contract is
\* paused or not, and once it holds the receipt, of status 1 or 0, it returns
\* the hash of the transaction it broadcast.
C19_CancelIgnoresPauseAndStatus ==
    call.op = "cancel" =>
        /\ Count(PauseReads) = 0
        /\ pc = "sign" => ENABLED Sign
        /\ pc = "send" => ENABLED Send
        /\ Has("wait") =>
              /\ pc = "returned"
              /\ err = None
              /\ Get(receipt).hash = Get(tx_hash)
              /\ Get(receipt).status \in {0, 1}
              /\ result = Some(HexText(Get(tx_hash)))
              /\ trace = <<"build", "sign", "send", "wait">>
        /\ pc = "returned" => Has("wait")
C19_Witness ==
    /\ call.op = "cancel"
    /\ pc = "returned"
    /\ Get(receipt).status = 0
    /\ Get(receipt).paused_at_send
    /\ result = Some(<<"0", "1", "f", "e">>)

\* the IDs of the orders the call's own transaction created (other accounts
\* place orders on another token)
OwnOrderIds == {i \in 1..Len(orders) : orders[i] # OtherRaw}

\* C20: place_order returns the order counter as read after the receipt,
\* whatever the receipt's status.  When the transaction succeeded the value
\* is the ID of the order it created if no other order was placed between
\* its inclusion and the read, and the ID of the last order another account
\* placed in between otherwise.
C20_PlaceReturnsCounterAtRead ==
    /\ [][(call.op = "place" /\ pc # "returned" /\ pc' = "returned") =>
            /\ pc = "get_order_count"
            /\ ~IsNone(receipt)
            /\ Get(receipt).hash = Get(tx_hash)
            /\ result' = Some(orderCounter)
            /\ Get(receipt).status = 1 =>
                  \E id \in 1..orderCounter :
                      /\ OwnOrderIds = {id}
                      /\ orders[id][3] = call.amount_in
                      /\ \A i \in (id + 1)..orderCounter : orders[i] = OtherRaw
            /\ Get(receipt).status = 0 => OwnOrderIds = {}]_vars
    /\ [](call.op = "place" /\ pc = "returned" =>
            /\ Get(result) <= orderCounter
            /\ Get(receipt).status = 1 =>
                  \E id \in 1..Get(result) :
                      /\ OwnOrderIds = {id}
                      /\ \A i \in (id + 1)..Get(result) : orders[i] = OtherRaw)
C20_Witness ==
    /\ call.op = "place"
    /\ pc = "returned"
    /\ Get(receipt).status = 1
    /\ OwnOrderIds = {1}
    /\ result = Some(2)
    /\ orders[2] = OtherRaw

\* C21: with neither a private key nor an account, place_order,
\* execute_order and cancel_order fail at once: the pause flag is not read,
\* nothing is built, signed or broadcast.  With both, the account signs and
\* the private key is not looked at.
C21_KeyMaterialResolution ==
    call.op \in {"place", "execute", "cancel"} =>
        /\ (IsNone(call.private_key) /\ IsNone(call.account)) =>
              /\ pc = "raised"
              /\ err = Error("NoKeyMaterial")
              /\ trace = <<>>
              /\ tx = None /\ signed = None /\ tx_hash = None
              /\ NetHashes = {}
        /\ (~IsNone(call.private_key) /\ ~IsNone(call.account)) =>
              /\ account = call.account
              /\ ~IsNone(err) => Get(err).kind \notin {"NoKeyMaterial", "InvalidKey"}
              /\ ~IsNone(tx) => Get(tx).from \in {None, Some(to_checksum(SignerAddress))}
              /\ ~IsNone(signed) => Get(signed).signer = Get(call.account).address
              /\ \A p \in mempool : p.signed.signer = Get(call.account).address
C21_Witness ==
    /\ call.op = "place"
    /\ IsNone(call.private_key) /\ IsNone(call.account)
    /\ botPaused
    /\ pc = "raised"
    /\ err = Error("NoKeyMaterial")
    /\ trace = <<>>

(***************************************************************************)
(* Properties of with_retry_martina, checked under SpecRetry.              *)
(***************************************************************************)
Retryable(o) == o # "ok" /\ \E d \in r_excs : o = d \/ d = "Exception"
\* fn fails with a retryable error on its first k calls and then succeeds
FailsThenSucceeds(k) ==
    /\ k + 1 <= Len(r_script)
    /\ \A i \in 1..k : Retryable(r_script[i])
    /\ r_script[k + 1] = "ok"
\* the first n sleeps of the backoff schedule: base, base*backoff, ...
Schedule(n) == [i \in 1..n |-> r_delay * Pow(r_backoff, i - 1)]

\* C7: when fn fails with a retryable error on its first k calls and then
\* succeeds, 0 <= k < max_attempts, with_retry calls it k+1 times, returns the
\* value of the last call and sleeps k times, the i-th sleep taking
\* delay * backoff^(i-1).
C7_RetryUntilSuccess ==
    \A k \in 0..(MaxAttempts - 1) :
        (FailsThenSucceeds(k) /\ k < r_max) =>
            /\ r_calls <= k + 1
            /\ r_pc # "raised"
            /\ r_sleeps = Schedule(Len(r_sleeps))
            /\ Len(r_sleeps) <= k
            /\ r_pc = "call" => Len(r_sleeps) = r_calls
            /\ r_pc = "returned" =>
                  /\ r_calls = k + 1
                  /\ r_out = Some(ValueOf(k + 1))
                  /\ r_sleeps = Schedule(k)
C7_Witness ==
    /\ r_max = 3
    /\ FailsThenSucceeds(2)
    /\ r_pc = "returned"
    /\ r_calls = 3
    /\ r_delay = 1 /\ r_backoff = 2
    /\ r_sleeps = <<1, 2>>

\* C8: when every call of fn fails with a retryable error and
\* max_attempts >= 1, with_retry calls it max_attempts times, sleeps
\* max_attempts - 1 times, never after the last attempt, and raises the
\* failure of the last call.
AlwaysFails == \A i \in 1..r_max : Retryable(r_script[i])
C8_RetryExhausted ==
    (r_max >= 1 /\ AlwaysFails) =>
        /\ r_calls <= r_max
        /\ Len(r_sleeps) <= r_max - 1
        /\ r_pc # "returned"
        /\ r_pc = "sleep" => r_calls < r_max
        /\ r_pc = "raised" =>
              /\ r_calls = r_max
              /\ Len(r_sleeps) = r_max - 1
              /\ r_out = Some(ExceptionOf(r_script[r_max], r_max))
C8_Witness ==
    /\ r_max = 3
    /\ r_script = <<"ValueError", "ConnectionError", "ValueError">>
    /\ r_excs = {"Exception"}
    /\ r_pc = "raised"
    /\ r_out = Some(ExceptionOf("ValueError", 3))
    /\ Len(r_sleeps) = 2

\* C9: a failure that is not in the retryable set leaves with_retry on the
\* call that raised it: fn is not called again and no sleep follows, on
\* whichever attempt and with however many attempts left.
C9_NonRetryablePropagates ==
    \A n \in 1..r_calls :
        (r_script[n] # "ok" /\ ~Retryable(r_script[n])) =>
            /\ n = r_calls
            /\ r_pc = "raised"
            /\ r_out = Some(ExceptionOf(r_script[n], n))
            /\ Len(r_sleeps) = n - 1
C9_Witness ==
    /\ r_max = 3
    /\ r_excs = {"ConnectionError"}
    /\ r_script[1] = "ConnectionError"
    /\ r_script[2] = "ValueError"
    /\ r_pc = "raised"
    /\ r_calls = 2
    /\ r_sleeps = <<r_delay>>

(***************************************************************************)
(* Properties of fetch_all_orders, checked under SpecFetch.                *)
(***************************************************************************)
\* the IDs whose read succeeded, and the IDs of the orders collected
ReadOk == {f_log[j].id : j \in {k \in 1..Len(f_log) : f_log[k].ok}}
OutIds == [j \in 1..Len(f_out) |-> f_out[j].order_id]

\* C10: fetch_all_orders reads the IDs 1..count in order, count being the
\* order counter it read, and returns exactly the orders whose read succeeded,
\* each once, in ascending ID order; a failed read is skipped and the reads
\* after it still happen.
C10_FetchCollectsSuccessfulReads ==
    /\ \A j \in 1..Len(f_log) : f_log[j].id = j
    /\ \A j \in 1..Len(f_out) : OutIds[j] \in ReadOk
    /\ \A j, k \in 1..Len(f_out) : j < k => OutIds[j] < OutIds[k]
    /\ Len(f_out) = Cardinality(ReadOk)
    /\ ~IsNone(f_count) =>
          /\ Get(f_count) <= orderCounter
          /\ Len(f_log) <= Get(f_count)
          /\ f_pc = "get_order" => f_i = Len(f_log) + 1
    /\ f_pc = "returned" => Len(f_log) = Get(f_count)
C10_Witness ==
    /\ f_pc = "returned"
    /\ f_count = Some(3)
    /\ f_log = <<[id |-> 1, ok |-> TRUE], [id |-> 2, ok |-> FALSE],
                 [id |-> 3, ok |-> TRUE]>>
    /\ OutIds = <<1, 3>>

\* C11: fetch_all_orders never ends by raising: whichever read fails, the
\* order-counter read or the read of an order, the call goes on and returns
\* a list.
C11_FetchNeverPropagates ==
    /\ f_pc # "raised"
    /\ f_err = None

\* the order with the given ID as the contract holds it
Stored(os, id) ==
    [order_id |-> id, token_in |-> os[id][1], token_out |-> os[id][2],
     amount_in |-> os[id][3], amount_out_min |-> os[id][4],
     deadline |-> os[id][5], filled |-> os[id][6], cancelled |-> os[id][7],
     placed_at_block |-> os[id][8]]

\* C22: fetch_all_orders reads the order counter once, before any order, and
\* then each ID 1..count once; it ends after count order reads; an order
\* placed while it runs (ID > count) is never in the list; and each order in
\* the list is the contract's state when its own read ran.
C22_FetchOneCounterReadPerBatch ==
    /\ [](/\ f_pc = "get_order_count" =>
               (IsNone(f_count) /\ f_log = <<>> /\ f_out = <<>>)
          /\ \A j \in 1..Len(f_log) : f_log[j].id = j
          /\ ~IsNone(f_count) => Len(f_log) <= Get(f_count)
          /\ f_pc = "returned" => Len(f_log) = Get(f_count)
          /\ f_pc = "raised" => (IsNone(f_count) /\ f_log = <<>>)
          /\ \A j \in 1..Len(f_out) : f_out[j].order_id <= Get(f_count))
    /\ [][/\ f_pc # "get_order_count" =>
               (f_count' = f_count /\ f_pc' # "get_order_count")
          /\ f_pc \in {"returned", "raised"} =>
               (f_pc' = f_pc /\ f_log' = f_log /\ f_out' = f_out)
          /\ f_out' # f_out =>
               f_out' = Append(f_out, Stored(orders, Len(f_log) + 1))]_vars
    /\ <>(f_pc \in {"returned", "raised"})
C22_Witness ==
    /\ f_pc = "returned"
    /\ f_count = Some(2)
    /\ orderCounter = 3
    /\ OutIds = <<1, 2>>
    /\ ~f_out[1].cancelled /\ orders[1][7]
    /\ f_out[2].filled

(***************************************************************************)
(* Properties of the helpers, checked under SpecHelpers.                   *)
(***************************************************************************)
Called(fn) == u_fn = fn /\ u_pc # "call"

\* C12: with two well-formed addresses, validate_order_params returns
\* exactly when amount_in > 0, amount_out_min >= 0 and the deadline is after
\* the current time; it fails when amount_in <= 0, when amount_out_min < 0
\* and when the deadline is the current time or earlier.
C12_ValidateAmountsAndDeadline ==
    (/\ Called("validate_order_params")
     /\ WellFormedAddress(u_args.token_in)
     /\ WellFormedAddress(u_args.token_out)) =>
        /\ u_pc = "returned" <=>
              /\ u_args.amount_in > 0
              /\ u_args.amount_out_min >= 0
              /\ u_args.deadline > u_args.t
        /\ u_pc = "raised" <=> u_pc # "returned"
        /\ u_args.amount_in <= 0 => u_out = Some("amountIn must be positive")
        /\ (u_args.amount_in > 0 /\ u_args.amount_out_min < 0) =>
              u_out = Some("amountOutMin must be non-negative")
        /\ u_pc = "returned" => u_out = None
C12_Witness ==
    /\ Called("validate_order_params")
    /\ u_args.token_in = TokenMixed
    /\ u_args.token_out = TokenA
    /\ u_args.amount_in = 5
    /\ u_args.amount_out_min = 0
    /\ u_args.deadline = u_args.t
    /\ u_out = Some("deadline must be in the future")

\* C13: validate_order_params fails with the invalid-address error unless
\* token_in and token_out are each 0x followed by exactly 40 hexadecimal
\* digits.
C13_ValidateRejectsNonHexAddress ==
    Called("validate_order_params") =>
        /\ ~WellFormedAddress(u_args.token_in) =>
              u_out = Some("invalid tokenIn address")
        /\ (/\ WellFormedAddress(u_args.token_in)
            /\ ~WellFormedAddress(u_args.token_out)) =>
              u_out = Some("invalid tokenOut address")

\* C14: for an amount >= 0 and bps in 0..100, apply_slippage returns
\* amount * (10000 - bps) / 10000 with the fraction cut off, which is never
\* more than the amount and is the amount itself for bps = 0.
C14_SlippageTruncates ==
    (/\ Called("apply_slippage_martina")
     /\ u_args.amount >= 0
     /\ u_args.bps \in 0..MARTINA_MAX_SLIPPAGE_BPS) =>
        LET q == Get(u_out)
            exact == u_args.amount * (10000 - u_args.bps)
        IN  /\ u_pc = "returned"
            /\ q >= 0
            /\ q <= u_args.amount
            /\ u_args.bps = 0 => q = u_args.amount
            /\ q * 10000 <= exact
            /\ exact < (q + 1) * 10000
C14_Witness ==
    /\ Called("apply_slippage_martina")
    /\ u_args.amount = 150
    /\ u_args.bps = 100
    /\ u_out = Some(148)

\* C15: parse_amount(format_amount(x, d), d) = x for every int x >= 0 and
\* every d in 0..18, amounts of more than 28 digits included.
C15_RoundTripExact ==
    (u_fn = "parse_amount" /\ u_args.decimals \in 0..18) =>
        /\ u_pc = "returned"
        /\ u_out = Some(u_args.amount)

\* C16: get_order puts the eight fields of the raw answer, in the order
\* tokenIn, tokenOut, amountIn, amountOutMin, deadline, filled, cancelled,
\* placedAtBlock, into the fields of the same names, and order_id is the ID
\* the caller passed, whatever the answer holds.
C16_DecodeOrderFields ==
    Called("get_order") =>
        LET o == Get(u_out)
            raw == u_args.raw
        IN  /\ u_pc = "returned"
            /\ o.order_id = u_args.order_id
            /\ o.token_in = raw[1]
            /\ o.token_out = raw[2]
            /\ o.amount_in = raw[3]
            /\ o.amount_out_min = raw[4]
            /\ o.deadline = raw[5]
            /\ o.filled = raw[6]
            /\ o.cancelled = raw[7]
            /\ o.placed_at_block = raw[8]
C16_Witness ==
    /\ Called("get_order")
    /\ u_args.order_id = 7
    /\ u_args.raw = <<TokenA, TokenB, 5, 3, 600, FALSE, TRUE, 10>>
    /\ Get(u_out).order_id = 7
    /\ Get(u_out).amount_in = 5
    /\ Get(u_out).amount_out_min = 3
    /\ Get(u_out).cancelled
    /\ ~Get(u_out).filled

C23_MockOrderIdsDense ==
    /\ DOMAIN m_orders = 1..m_order_count
    /\ Len(m_calls) = m_order_count
    /\ \A j \in 1..Len(m_calls) :
          /\ m_calls[j].returned = j
          /\ m_orders[j].order_id = j
          /\ m_orders[j].token_in = m_calls[j].args.token_in
          /\ m_orders[j].token_out = m_calls[j].args.token_out
          /\ m_orders[j].amount_in = m_calls[j].args.amount_in
          /\ m_orders[j].amount_out_min = m_calls[j].args.amount_out_min
          /\ m_orders[j].deadline = m_calls[j].args.deadline
          /\ ~(m_orders[j].filled /\ m_orders[j].cancelled)
    /\ (~IsNone(m_last) /\ Get(m_last).fn = "get_order_count") =>
          Get(m_last).out = Some(m_order_count)
    /\ (~IsNone(m_last) /\ Get(m_last).fn = "get_order") =>
          /\ ~IsNone(Get(m_last).out) <=>
                Get(m_last).order_id \in 1..m_order_count
          /\ ~IsNone(Get(m_last).out) =>
                Get(Get(m_last).out).order_id = Get(m_last).order_id
C23_Witness ==
    /\ m_order_count = 3
    /\ m_calls[1].args.amount_in = 5
    /\ m_calls[2].args.amount_in = 0
    /\ m_orders[1].amount_in = 5
    /\ m_orders[3].token_in = TokenBad
    /\ ~IsNone(m_last)
    /\ Get(m_last).fn = "get_order"
    /\ Get(m_last).order_id = 2
    /\ Get(Get(m_last).out).amount_in = 0

====
